---- MODULE Spec2Model ----
(***************************************************************************)
(* State-machine model of src/blockchain.py: the Blockchain class (chain,  *)
(* pending transaction pool, peer set, hashing, proof of work, chain       *)
(* validation, conflict resolution) and the Flask handlers that drive it   *)
(* (mine, new_transaction, full_chain, register_nodes, consensus).         *)
(*                                                                         *)
(* Python objects are modelled with reference semantics: `blocks` and      *)
(* `lists` are heaps of dict and list objects, and every field or variable *)
(* that holds a dict or a list holds its heap address.  Handlers run in    *)
(* concurrent request contexts (app.run serves requests on threads); one   *)
(* source statement is one atomic step.  Spec interleaves the handlers of  *)
(* all threads; SeqSpec runs the same steps one request at a time.         *)
(*                                                                         *)
(* hashlib.sha256 is scaled down: the digest is a numeral of HashLen binary *)
(* digits (for 64 hex digits), computed by a multiplicative fold over the  *)
(* serialized block.  Like the real digest it depends on every field of    *)
(* the block, and for every block some proof makes it start with           *)
(* Difficulty zeros.                                                       *)
(***************************************************************************)
EXTENDS Integers, Sequences, FiniteSets, TLC

\* ------------------------------------------------------------------ bounds
\* number of request contexts that may run handlers concurrently
NumThreads == 2
\* mine and consensus start only while fewer block objects than this exist
MaxBlocks == 4
\* mine starts only while the chain, with the blocks under way, is shorter
MaxChain == 3
\* POST /transactions/new is taken only while the pool holds fewer transactions
MaxPool == 1
\* the greatest length a peer reports
MaxLength == 3
\* time() returns a value in 0..MaxTime
MaxTime == 0
\* digits of a digest
HashLen == 4

\* blocks in the longest chain handed to valid_chain directly
MaxCandidate == 3
\* greatest proof a block handed to proof_of_work directly starts from
MaxStart == 2

\* ------------------------------------------------------- program constants
\* valid_proof: Blockchain.hash(block) [:4] == "0000"
Difficulty == 4
\* __init__: self.new_block(previous_hash = '1', proof = 100)
GenesisProof == 100

Threads == 1 .. NumThreads
Times == 0 .. MaxTime

\* ------------------------------------------------------------ transactions
\* node_identifier = str(uuid4()).replace('-', '')
node_identifier == "node"

\* the reward transaction mine() adds: sender "0", recipient this node, amount 1
RewardTx == [sender |-> "0", recipient |-> node_identifier, amount |-> 1]

\* request bodies POSTed to /transactions/new
UserTxs == { [sender |-> "A", recipient |-> "B", amount |-> 10] }

\* ----------------------------------------------------------------- hashing
\* the bytes of a JSON string, as one number per known string
StrCode(s) ==
    CASE s = "0" -> 0
      [] s = "A" -> 1
      [] s = "B" -> 2
      [] s = node_identifier -> 3
      [] OTHER -> 4

\* json.dumps(tx, sort_keys = True): keys in the order amount, recipient, sender
DumpTx(tx) == << tx.amount, StrCode(tx.recipient), StrCode(tx.sender) >>

RECURSIVE DumpTxs(_)
DumpTxs(txs) ==
    IF txs = << >> THEN << >>
    ELSE DumpTx(Head(txs)) \o DumpTxs(Tail(txs))

\* json.dumps(block, sort_keys = True): keys in the order index, previous_hash,
\* proof, timestamp, transactions.  `b` is a block with its transactions by value.
Dumps(b) ==
    << b.index, Len(b.previous_hash) >> \o b.previous_hash
        \o << b.proof, b.timestamp, Len(b.transactions) >> \o DumpTxs(b.transactions)

HashMod == 2 ^ HashLen

\* hashlib.sha256(bytes): the digest as a number below HashMod
RECURSIVE Sha(_, _)
Sha(bytes, h) ==
    IF bytes = << >> THEN h
    ELSE Sha(Tail(bytes), (h * 5 + Head(bytes) + 1) % HashMod)

\* .hexdigest(): HashLen digits, most significant first
HexDigest(n) == [i \in 1 .. HashLen |-> (n \div (2 ^ (HashLen - i))) % 2]

hash(b) == HexDigest(Sha(Dumps(b), 7))

\* Blockchain.hash(block) [:4] == "0000"
valid_proof(b) ==
    SubSeq(hash(b), 1, Difficulty) = [i \in 1 .. Difficulty |-> 0]

\* proof_of_work run to completion on a block value: the proof it stops at
RECURSIVE proof_of_work(_)
proof_of_work(b) ==
    IF valid_proof(b) THEN b.proof
    ELSE proof_of_work([b EXCEPT !.proof = @ + 1])

\* valid_chain(chain) on a chain of block values, from position current_index
RECURSIVE valid_from(_, _)
valid_from(c, current_index) ==
    IF current_index > Len(c) THEN TRUE
    ELSE IF c[current_index].previous_hash # hash(c[current_index - 1]) THEN FALSE
    ELSE IF ~ valid_proof(c[current_index]) THEN FALSE
    ELSE valid_from(c, current_index + 1)

valid_chain(c) == valid_from(c, 2)

\* ------------------------------------------------------------- urlparse
\* An address is its sequence of lexical parts.  urlparse takes a leading
\* part followed by ":" as the scheme, and finds a network location only
\* behind a "//" that follows the scheme; everything else is path.
Addresses ==
    { << "http", ":", "//", "peer1" >>,
      << "http", ":", "//", "peer1", "/chain" >>,
      << "http", ":", "//", "peer2" >>,
      << "peer1", ":", "5000" >> }

urlparse(address) ==
    LET has_scheme == Len(address) >= 2 /\ address[2] = ":"
        rest == IF has_scheme THEN SubSeq(address, 3, Len(address)) ELSE address
        has_netloc == Len(rest) >= 1 /\ rest[1] = "//"
    IN  [scheme |-> IF has_scheme THEN address[1] ELSE "",
         netloc |-> IF has_netloc /\ Len(rest) >= 2 THEN rest[2] ELSE "",
         path |-> IF has_netloc THEN SubSeq(rest, 3, Len(rest)) ELSE rest]

\* ------------------------------------------------------------------- peers
\* What GET http://<node>/chain of a peer may answer.  A peer that runs this
\* program has a genesis block of its own and blocks mined on top of it.
PeerGenesis ==
    [index |-> 1, timestamp |-> 0, transactions |-> << >>,
     proof |-> GenesisProof, previous_hash |-> << 1 >>]

\* a block as mine() leaves it: its proof searched from 0
PeerBlock(index, previous_hash) ==
    LET b == [index |-> index, timestamp |-> 0, transactions |-> << RewardTx >>,
              proof |-> 0, previous_hash |-> previous_hash]
    IN  [b EXCEPT !.proof = proof_of_work(b)]

\* two blocks, as a peer that mined once serves them
HonestChain == << PeerGenesis, PeerBlock(2, hash(PeerGenesis)) >>

\* linked and solved, but its first block is no genesis block and its indices
\* are not consecutive
ForeignChain ==
    LET first == [index |-> 7, timestamp |-> 0, transactions |-> << >>,
                  proof |-> 3, previous_hash |-> << 0 >>]
    IN  << first, PeerBlock(5, hash(first)) >>

\* the second block's proof is one past the solution
UnsolvedChain ==
    << PeerGenesis, [HonestChain[2] EXCEPT !.proof = @ + 1] >>

\* the second block is solved but does not link to the first
UnlinkedChain ==
    << PeerGenesis,
       PeerBlock(2, HexDigest((Sha(Dumps(PeerGenesis), 7) + 1) % HashMod)) >>

PeerChains ==
    { << PeerGenesis >>, HonestChain, ForeignChain, UnsolvedChain, UnlinkedChain }

\* response.status_code and response.json() of a peer: under status 200 any
\* chain, with its true length or with MaxLength for it, and one answer
\* with another status
Responses ==
    { [status_code |-> 200, length |-> l, chain |-> c] :
        << l, c >> \in { x \in (1 .. MaxLength) \X PeerChains :
                          x[1] \in {Len(x[2]), MaxLength} } }
        \cup { [status_code |-> 500, length |-> MaxLength, chain |-> HonestChain] }
\* ------------------------------------------------------------------- state
VARIABLES
    blocks,                 \* heap of block dicts, by address 1..Len(blocks)
    lists,                  \* heap of transaction lists, by address
    chain,                  \* self.chain: addresses of its blocks, in order
    pending_transactions,   \* self.pending_transactions: address of the pool list
    nodes,                  \* self.nodes: set of network locations
    pc,                     \* per request context: the statement it is at
    block,                  \* local `block` of new_block / mine (an address)
    neighbors,              \* resolve_conflict: nodes the for loop has yet to visit
    si_used,                \* resolve_conflict: size of the set when the loop began
    max_length,             \* resolve_conflict: local max_length
    new_chain,              \* resolve_conflict: local new_chain (<< >> is None)
    ret,                    \* what the handler returns to its caller
    appended,               \* history: the list new_transaction appended to
    index_for,              \* history: per list, the indices new_transaction returned
    longer,                 \* history: a scanned peer had a longer chain
    scanned,                \* history: the answers with status 200 and a chain
                            \* that passes valid_chain, in the order of the scan
    call                    \* a direct call of a Blockchain method: its
                            \* argument, its locals and what it returned

vars ==
    << blocks, lists, chain, pending_transactions, nodes, pc, block, neighbors,
       si_used, max_length, new_chain, ret, appended, index_for, longer,
       scanned, call >>

shared == << blocks, lists, chain, pending_transactions, nodes >>
rc_locals == << neighbors, si_used, max_length, new_chain, longer, scanned >>

\* a block dict as json.dumps / jsonify sees it: its transaction list by value
BlockVal(a) == [blocks[a] EXCEPT !.transactions = lists[@]]

\* the chain as a sequence of block values (what GET /chain serializes)
ChainVal == [i \in 1 .. Len(chain) |-> BlockVal(chain[i])]

\* @property last_block: self.chain[-1]
last_block == BlockVal(chain[Len(chain)])

NoRet == [kind |-> "none"]

\* no method is being called directly
NoCall == [fn |-> "none"]

\* time(): the clock does not run backwards
RECURSIVE Latest(_)
Latest(n) ==
    IF n = 0 THEN 0
    ELSE IF blocks[n].timestamp > Latest(n - 1) THEN blocks[n].timestamp
    ELSE Latest(n - 1)

time == { ts \in Times : ts >= Latest(Len(blocks)) }

\* ------------------------------------------------------------- construction
\* Blockchain.__init__: chain = [], pending_transactions = [],
\* new_block(previous_hash = '1', proof = 100), nodes = set()
Init ==
    /\ \E ts \in Times :
         blocks = << [index |-> 1, timestamp |-> ts, transactions |-> 1,
                      proof |-> GenesisProof, previous_hash |-> << 1 >>] >>
    /\ lists = << << >>, << >> >>
    /\ chain = << 1 >>
    /\ pending_transactions = 2
    /\ nodes = {}
    /\ pc = [t \in Threads |-> "idle"]
    /\ block = [t \in Threads |-> 0]
    /\ neighbors = [t \in Threads |-> {}]
    /\ si_used = [t \in Threads |-> 0]
    /\ max_length = [t \in Threads |-> 0]
    /\ new_chain = [t \in Threads |-> << >>]
    /\ ret = [t \in Threads |-> NoRet]
    /\ appended = [t \in Threads |-> 0]
    /\ index_for = << {}, {} >>
    /\ longer = [t \in Threads |-> FALSE]
    /\ scanned = [t \in Threads |-> << >>]
    /\ call = NoCall

\* ------------------------------------------------------- new_transaction
\* lines 49-53: self.pending_transactions.append({...})
AppendTx(tx) ==
    lists' = [lists EXCEPT ![pending_transactions] = Append(@, tx)]

\* line 55: self.last_block['index'] + 1
NextIndex == last_block.index + 1

\* POST /transactions/new (lines 189-200), up to the append of line 49
new_transaction_append(t) ==
    /\ pc[t] = "idle"
    /\ Len(lists[pending_transactions]) < MaxPool
    /\ \E tx \in UserTxs : AppendTx(tx)
    /\ appended' = [appended EXCEPT ![t] = pending_transactions]
    /\ pc' = [pc EXCEPT ![t] = "nt_return"]
    /\ UNCHANGED << call, blocks, chain, pending_transactions, nodes, block, rc_locals,
                    ret, index_for >>

\* line 55: return self.last_block['index'] + 1, and lines 202-203: the reply
new_transaction_return(t) ==
    /\ pc[t] = "nt_return"
    /\ ret' = [ret EXCEPT ![t] = [kind |-> "transaction", index |-> NextIndex]]
    /\ index_for' = [index_for EXCEPT ![appended[t]] = @ \cup {NextIndex}]
    /\ appended' = [appended EXCEPT ![t] = 0]
    /\ pc' = [pc EXCEPT ![t] = "done"]
    /\ UNCHANGED << call, shared, block, rc_locals >>

\* ------------------------------------------------------------------- mine
\* request contexts that will allocate a block and have not yet
Allocating == { u \in Threads : pc[u] = "mine_new_block" }

\* request contexts that will append a block to the chain and have not yet
Appending == { u \in Threads : pc[u] \in {"mine_new_block", "nb_reset", "nb_append"} }

\* lines 170-174: blockchain.new_transaction(sender = "0", ...), lines 49-55;
\* the index it returns is dropped
mine_reward(t) ==
    /\ pc[t] = "idle"
    /\ Len(blocks) + Cardinality(Allocating) < MaxBlocks
    /\ Len(chain) + Cardinality(Appending) < MaxChain
    /\ AppendTx(RewardTx)
    /\ index_for' = [index_for EXCEPT ![pending_transactions] = @ \cup {NextIndex}]
    /\ pc' = [pc EXCEPT ![t] = "mine_new_block"]
    /\ UNCHANGED << call, blocks, chain, pending_transactions, nodes, block, rc_locals,
                    ret, appended >>

\* new_block(proof, previous_hash = None), lines 27-33: the block dict.  Its
\* 'transactions' is the pool list itself, not a copy.
NewBlockDict(proof, ts) ==
    [index |-> Len(chain) + 1,
     timestamp |-> ts,
     transactions |-> pending_transactions,
     proof |-> proof,
     previous_hash |-> hash(last_block)]

\* line 177: block = blockchain.new_block(0), up to the dict of lines 27-33
new_block_dict(t) ==
    /\ pc[t] = "mine_new_block"
    /\ \E ts \in time : blocks' = Append(blocks, NewBlockDict(0, ts))
    /\ block' = [block EXCEPT ![t] = Len(blocks) + 1]
    /\ pc' = [pc EXCEPT ![t] = "nb_reset"]
    /\ UNCHANGED << call, lists, chain, pending_transactions, nodes, rc_locals, ret,
                    appended, index_for >>

\* new_block without line 36: the pool is not reset
new_block_keeps_pool(t) ==
    /\ pc[t] = "nb_reset"
    /\ pc' = [pc EXCEPT ![t] = "nb_append"]
    /\ UNCHANGED << call, shared, block, rc_locals, ret, appended, index_for >>

\* line 36: self.pending_transactions = []
new_block_reset(t) ==
    /\ pc[t] = "nb_reset"
    /\ lists' = Append(lists, << >>)
    /\ index_for' = Append(index_for, {})
    /\ pending_transactions' = Len(lists) + 1
    /\ pc' = [pc EXCEPT ![t] = "nb_append"]
    /\ UNCHANGED << call, blocks, chain, nodes, block, rc_locals, ret, appended >>

\* line 37 twice: the block is appended a second time
new_block_append_twice(t) ==
    /\ pc[t] = "nb_append"
    /\ chain' = Append(Append(chain, block[t]), block[t])
    /\ pc' = [pc EXCEPT ![t] = "pow"]
    /\ UNCHANGED << call, blocks, lists, pending_transactions, nodes, block, rc_locals,
                    ret, appended, index_for >>

\* lines 37-38: self.chain.append(block); return block
new_block_append(t) ==
    /\ pc[t] = "nb_append"
    /\ chain' = Append(chain, block[t])
    /\ pc' = [pc EXCEPT ![t] = "pow"]
    /\ UNCHANGED << call, blocks, lists, pending_transactions, nodes, block, rc_locals,
                    ret, appended, index_for >>

\* line 178, proof_of_work lines 81-82: one turn of the while loop
proof_of_work_step(t) ==
    /\ pc[t] = "pow"
    /\ ~ valid_proof(BlockVal(block[t]))
    /\ blocks' = [blocks EXCEPT ![block[t]].proof = @ + 1]
    /\ UNCHANGED << call, lists, chain, pending_transactions, nodes, pc, block, rc_locals,
                    ret, appended, index_for >>

\* the loop ends; lines 180-187: the reply, read from the block
mine_response(t) ==
    /\ pc[t] = "pow"
    /\ valid_proof(BlockVal(block[t]))
    /\ ret' = [ret EXCEPT ![t] =
                 [kind |-> "mine",
                  index |-> blocks[block[t]].index,
                  transactions |-> lists[blocks[block[t]].transactions],
                  proof |-> blocks[block[t]].proof,
                  previous_hash |-> blocks[block[t]].previous_hash]]
    /\ pc' = [pc EXCEPT ![t] = "done"]
    /\ UNCHANGED << call, shared, block, rc_locals, appended, index_for >>

\* ------------------------------------------------------------- full_chain
\* GET /chain, lines 207-211
full_chain(t) ==
    /\ pc[t] = "idle"
    /\ ret' = [ret EXCEPT ![t] =
                 [kind |-> "chain", chain |-> ChainVal, length |-> Len(chain)]]
    /\ pc' = [pc EXCEPT ![t] = "done"]
    /\ UNCHANGED << call, shared, block, rc_locals, appended, index_for >>

\* ---------------------------------------------------------- register_nodes
\* lines 100-101: self.nodes.add(urlparse(address).netloc)
register_node(address) == nodes' = nodes \cup { urlparse(address).netloc }

\* POST /nodes/register with one address in 'nodes', lines 214-229
register_nodes(t) ==
    /\ pc[t] = "idle"
    /\ \E address \in Addresses : register_node(address)
    /\ ret' = [ret EXCEPT ![t] = [kind |-> "nodes", total_nodes |-> nodes']]
    /\ pc' = [pc EXCEPT ![t] = "done"]
    /\ UNCHANGED << call, blocks, lists, chain, pending_transactions, block, rc_locals,
                    appended, index_for >>

\* ------------------------------------------------------- resolve_conflict
\* GET /nodes/resolve, line 233; resolve_conflict lines 137-142: neighbors is
\* self.nodes itself, and the for loop's iterator notes the size of the set
resolve_begin(t) ==
    /\ pc[t] = "idle"
    /\ Len(blocks) < MaxBlocks
    /\ neighbors' = [neighbors EXCEPT ![t] = nodes]
    /\ si_used' = [si_used EXCEPT ![t] = Cardinality(nodes)]
    /\ new_chain' = [new_chain EXCEPT ![t] = << >>]
    /\ max_length' = [max_length EXCEPT ![t] = Len(chain)]
    /\ longer' = [longer EXCEPT ![t] = FALSE]
    /\ scanned' = [scanned EXCEPT ![t] = << >>]
    /\ pc' = [pc EXCEPT ![t] = "rc_for"]
    /\ UNCHANGED << call, shared, block, ret, appended, index_for >>

\* an exception leaves resolve_conflict and the handler: nothing catches it
Raise(t, error) ==
    /\ ret' = [ret EXCEPT ![t] = [kind |-> "error", error |-> error]]
    /\ pc' = [pc EXCEPT ![t] = "raised"]

\* line 142: the set iterator finds that another request added a node
resolve_set_changed(t) ==
    /\ pc[t] = "rc_for"
    /\ Cardinality(nodes) # si_used[t]
    /\ Raise(t, "RuntimeError")
    /\ UNCHANGED << call, shared, block, rc_locals, appended, index_for >>

\* the peer's chain has more blocks than ours, or is reported to
PeerLonger(r) == r.length > Len(chain) \/ Len(r.chain) > Len(chain)

\* line 143: requests.get raises: no host in 'http:///chain', or the peer
\* (whose chain is r) cannot be reached
resolve_get_raises(t) ==
    /\ pc[t] = "rc_for"
    /\ Cardinality(nodes) = si_used[t]
    /\ \E node \in neighbors[t] :
         /\ neighbors' = [neighbors EXCEPT ![t] = @ \ {node}]
         /\ \/ /\ node = ""
               /\ Raise(t, "InvalidURL")
               /\ UNCHANGED longer
            \/ /\ node # ""
               /\ Raise(t, "ConnectionError")
               /\ \E r \in Responses :
                    longer' = [longer EXCEPT ![t] = @ \/ PeerLonger(r)]
    /\ UNCHANGED << call, shared, block, si_used, max_length, new_chain, appended,
                    index_for, scanned >>

\* line 148 with >= for >: a chain as long as the best so far replaces it
CandidateOnTie(t, r) ==
    r.status_code = 200 /\ r.length >= max_length[t] /\ valid_chain(r.chain)

\* lines 144-150 on the response r of a peer
Candidate(t, r) ==
    r.status_code = 200 /\ r.length > max_length[t] /\ valid_chain(r.chain)

\* lines 142-150: one turn of the for loop with a peer that answers
resolve_scan(t) ==
    /\ pc[t] = "rc_for"
    /\ Cardinality(nodes) = si_used[t]
    /\ \E node \in neighbors[t] \ {""} :
         /\ neighbors' = [neighbors EXCEPT ![t] = @ \ {node}]
         /\ \E r \in Responses :
              /\ longer' = [longer EXCEPT ![t] = @ \/ PeerLonger(r)]
              /\ scanned' = [scanned EXCEPT ![t] =
                                IF r.status_code = 200 /\ valid_chain(r.chain)
                                  THEN Append(@, r) ELSE @]
              /\ IF Candidate(t, r)
                   THEN /\ max_length' = [max_length EXCEPT ![t] = r.length]
                        /\ new_chain' = [new_chain EXCEPT ![t] = r.chain]
                   ELSE UNCHANGED << max_length, new_chain >>
    /\ UNCHANGED << call, shared, pc, block, si_used, ret, appended, index_for >>

\* line 154, self.chain = new_chain: the blocks json() parsed become the chain
Adopt(c) ==
    /\ blocks' = blocks \o [i \in 1 .. Len(c) |->
                              [c[i] EXCEPT !.transactions = Len(lists) + i]]
    /\ lists' = lists \o [i \in 1 .. Len(c) |-> c[i].transactions]
    /\ index_for' = index_for \o [i \in 1 .. Len(c) |-> {}]
    /\ chain' = [i \in 1 .. Len(c) |-> Len(blocks) + i]

\* lines 153-156, forgetting the peers on the way out
resolve_return_drops_nodes(t) ==
    /\ pc[t] = "rc_for"
    /\ Cardinality(nodes) = si_used[t]
    /\ neighbors[t] = {}
    /\ IF new_chain[t] # << >>
         THEN /\ Adopt(new_chain[t])
              /\ ret' = [ret EXCEPT ![t] = [kind |-> "resolve", replaced |-> TRUE]]
         ELSE /\ ret' = [ret EXCEPT ![t] = [kind |-> "resolve", replaced |-> FALSE]]
              /\ UNCHANGED << blocks, lists, chain, index_for >>
    /\ nodes' = {}
    /\ pc' = [pc EXCEPT ![t] = "done"]
    /\ UNCHANGED << call, pending_transactions, block, rc_locals, appended >>

\* the loop is over; lines 153-156
resolve_return(t) ==
    /\ pc[t] = "rc_for"
    /\ Cardinality(nodes) = si_used[t]
    /\ neighbors[t] = {}
    /\ IF new_chain[t] # << >>
         THEN /\ Adopt(new_chain[t])
              /\ ret' = [ret EXCEPT ![t] = [kind |-> "resolve", replaced |-> TRUE]]
         ELSE /\ ret' = [ret EXCEPT ![t] = [kind |-> "resolve", replaced |-> FALSE]]
              /\ UNCHANGED << blocks, lists, chain, index_for >>
    /\ pc' = [pc EXCEPT ![t] = "done"]
    /\ UNCHANGED << call, pending_transactions, nodes, block, rc_locals, appended >>

\* ------------------------------------------------------------------ reply
\* the handler's reply (or the 500 of an exception) is sent; the request
\* context and its locals are gone
reply(t) ==
    /\ pc[t] \in {"done", "raised"}
    /\ pc' = [pc EXCEPT ![t] = "idle"]
    /\ ret' = [ret EXCEPT ![t] = NoRet]
    /\ block' = [block EXCEPT ![t] = 0]
    /\ neighbors' = [neighbors EXCEPT ![t] = {}]
    /\ si_used' = [si_used EXCEPT ![t] = 0]
    /\ max_length' = [max_length EXCEPT ![t] = 0]
    /\ new_chain' = [new_chain EXCEPT ![t] = << >>]
    /\ longer' = [longer EXCEPT ![t] = FALSE]
    /\ scanned' = [scanned EXCEPT ![t] = << >>]
    /\ UNCHANGED << call, shared, appended, index_for >>

\* ------------------------------------------------------------ direct calls
\* valid_chain and proof_of_work called on their own, on arguments that no
\* handler need have produced.

\* a block mined on top of block b, at position index, with transactions txs
MinedOn(b, index, txs) ==
    LET m == [index |-> index, timestamp |-> 0, transactions |-> txs,
              proof |-> 0, previous_hash |-> hash(b)]
    IN  [m EXCEPT !.proof = proof_of_work(m)]

\* first blocks of a chain: a genesis block, one that is none, and one that
\* carries a transaction
FirstBlocks ==
    { PeerGenesis, ForeignChain[1] }
        \cup { [PeerGenesis EXCEPT !.transactions = << tx >>] : tx \in UserTxs }

\* blocks that may follow block b: mined on it (with the reward, or with a
\* posted transaction and the reward), the same with a proof that is no
\* solution, and one mined on another hash than b's
NextBlocks(b, index) ==
    { MinedOn(b, index, << RewardTx >>) }
        \cup { MinedOn(b, index, << tx, RewardTx >>) : tx \in UserTxs }
        \cup { [MinedOn(b, index, << RewardTx >>) EXCEPT !.proof = @ + 1] }
        \cup { PeerBlock(index, HexDigest((Sha(Dumps(b), 7) + 1) % HashMod)) }

\* the chains of n blocks built of these
RECURSIVE ChainsOfLen(_)
ChainsOfLen(n) ==
    IF n = 1 THEN { << f >> : f \in FirstBlocks }
    ELSE UNION { { Append(c, x) : x \in NextBlocks(c[n - 1], n) } :
                   c \in ChainsOfLen(n - 1) }

BuiltChains == UNION { ChainsOfLen(n) : n \in 1 .. MaxCandidate }

\* the fields of a transaction, and transaction tx with one field changed
TxFields == { "sender", "recipient", "amount" }

Changed(tx, field) ==
    CASE field = "sender" -> [tx EXCEPT !.sender = "X"]
      [] field = "recipient" -> [tx EXCEPT !.recipient = "X"]
      [] OTHER -> [tx EXCEPT !.amount = @ + 1]

\* chain c with field `field` of transaction j of the block at position k
\* (counted from 0, as the code counts) changed, and nothing else
Tamper(c, k, j, field) ==
    [c EXCEPT ![k + 1].transactions[j] = Changed(@, field)]

\* where a chain can be tampered with: a block that is not the last, and a
\* transaction of it
TamperPoints(c) ==
    { << k, j >> \in (0 .. Len(c) - 2) \X (1 .. 2) :
        j <= Len(c[k + 1].transactions) }

TamperedChains ==
    UNION { { Tamper(c, kj[1], kj[2], field) :
                kj \in TamperPoints(c), field \in TxFields } :
              c \in { b \in BuiltChains : valid_chain(b) } }

\* the arguments of the direct calls of valid_chain
CandidateChains == BuiltChains \cup TamperedChains

\* the arguments of the direct calls of proof_of_work: blocks of these
\* chains as they are, solved or not, and with their proof set back
PowBlocks ==
    LET made == UNION { { c[i] : i \in 1 .. Len(c) } : c \in ChainsOfLen(2) }
    IN  made \cup { [b EXCEPT !.proof = p] : b \in made, p \in 0 .. MaxStart }

\* the state of the program, which a direct call of these two leaves alone
served == << shared, pc, block, rc_locals, ret, appended, index_for >>

\* lines 109-110: last_block = chain[0]; current_index = 1
valid_chain_begin ==
    /\ call = NoCall
    /\ \E c \in CandidateChains :
         call' = [fn |-> "valid_chain", chain |-> c, last_block |-> c[1],
                  current_index |-> 1, pc |-> "while", ret |-> FALSE]
    /\ UNCHANGED served

\* the call returns r
Return(r) == call' = [call EXCEPT !.pc = "return", !.ret = r]

\* lines 112-128 without the check of line 123
valid_chain_while_no_proof ==
    /\ call.fn = "valid_chain" /\ call.pc = "while"
    /\ IF call.current_index < Len(call.chain)
         THEN LET b == call.chain[call.current_index + 1]
              IN  IF b.previous_hash # hash(call.last_block)
                    THEN Return(FALSE)
                    ELSE call' = [call EXCEPT !.last_block = b,
                                              !.current_index = @ + 1]
         ELSE Return(TRUE)
    /\ UNCHANGED served

\* lines 112-128 without the check of line 119
valid_chain_while_no_link ==
    /\ call.fn = "valid_chain" /\ call.pc = "while"
    /\ IF call.current_index < Len(call.chain)
         THEN LET b == call.chain[call.current_index + 1]
              IN  IF ~ valid_proof(b)
                    THEN Return(FALSE)
                    ELSE call' = [call EXCEPT !.last_block = b,
                                              !.current_index = @ + 1]
         ELSE Return(TRUE)
    /\ UNCHANGED served

\* lines 112-130: one turn of the while loop, or the return after it
valid_chain_while ==
    /\ call.fn = "valid_chain" /\ call.pc = "while"
    /\ IF call.current_index < Len(call.chain)
         THEN LET b == call.chain[call.current_index + 1]
              IN  IF b.previous_hash # hash(call.last_block)
                    THEN Return(FALSE)
                    ELSE IF ~ valid_proof(b)
                    THEN Return(FALSE)
                    ELSE call' = [call EXCEPT !.last_block = b,
                                              !.current_index = @ + 1]
         ELSE Return(TRUE)
    /\ UNCHANGED served

\* proof_of_work(block) is called; `start` keeps the proof the block came with
proof_of_work_begin ==
    /\ call = NoCall
    /\ \E b \in PowBlocks :
         call' = [fn |-> "proof_of_work", block |-> b, start |-> b.proof,
                  pc |-> "while"]
    /\ UNCHANGED served

\* lines 81-82 as a loop that adds 1 before it first looks
proof_of_work_while_adds_first ==
    /\ call.fn = "proof_of_work" /\ call.pc = "while"
    /\ IF valid_proof(call.block) /\ call.block.proof # call.start
         THEN call' = [call EXCEPT !.pc = "return"]
         ELSE call' = [call EXCEPT !.block.proof = @ + 1]
    /\ UNCHANGED served

\* lines 81-82: one turn of the while loop, or its end
proof_of_work_while ==
    /\ call.fn = "proof_of_work" /\ call.pc = "while"
    /\ IF ~ valid_proof(call.block)
         THEN call' = [call EXCEPT !.block.proof = @ + 1]
         ELSE call' = [call EXCEPT !.pc = "return"]
    /\ UNCHANGED served

\* the caller has its answer
call_return ==
    /\ call.fn # "none" /\ call.pc = "return"
    /\ call' = NoCall
    /\ UNCHANGED served

\* ---------------------------------------------------------- specifications
\* /transactions/new
TransactionStep(t) ==
    \/ new_transaction_append(t)
    \/ new_transaction_return(t)

\* /mine
MineStep(t) ==
    \/ mine_reward(t)
    \/ new_block_dict(t)
    \/ new_block_reset(t)
    \/ new_block_append(t)
    \/ proof_of_work_step(t)
    \/ mine_response(t)

\* /nodes/resolve, but for the error of a set that changes under its iterator
ResolveStep(t) ==
    \/ resolve_begin(t)
    \/ resolve_get_raises(t)
    \/ resolve_scan(t)
    \/ resolve_return(t)

\* the statements of one request context, alone in the program
SeqStep(t) ==
    \/ TransactionStep(t)
    \/ MineStep(t)
    \/ full_chain(t)
    \/ register_nodes(t)
    \/ ResolveStep(t)
    \/ reply(t)

\* the statements of one request context among others: another context's
\* /nodes/register can change the set that resolve_conflict iterates over
Step(t) ==
    \/ SeqStep(t)
    \/ resolve_set_changed(t)

\* the requests of all contexts interleave, statement by statement
Next == \E t \in Threads : Step(t)

Spec == Init /\ [][Next]_vars

\* one request at a time, all in the first request context
SeqNext == SeqStep(1)

SeqSpec == Init /\ [][SeqNext]_vars

\* interleaved requests to /mine, /transactions/new and /chain
MineNext ==
    \E t \in Threads : TransactionStep(t) \/ MineStep(t) \/ full_chain(t) \/ reply(t)

MineSpec == Init /\ [][MineNext]_vars

\* direct calls of valid_chain and proof_of_work, one at a time
CallNext ==
    \/ valid_chain_begin
    \/ valid_chain_while
    \/ proof_of_work_begin
    \/ proof_of_work_while
    \/ call_return

CallSpec == Init /\ [][CallNext]_vars

\* the caller's thread keeps running its loop
FairCallSpec == CallSpec /\ WF_vars(CallNext)

\* /mine and /nodes/register in one request context, /nodes/resolve in
\* another, statement by statement
ResolveNext ==
    \/ MineStep(1)
    \/ register_nodes(1)
    \/ reply(1)
    \/ ResolveStep(2)
    \/ resolve_set_changed(2)
    \/ reply(2)

ResolveSpec == Init /\ [][ResolveNext]_vars

\* ------------------------------------------------------------------ claims
Pool == lists[pending_transactions]

IsPrefix(s, q) == Len(s) <= Len(q) /\ SubSeq(q, 1, Len(s)) = s

\* C1: no reader observes a block whose proof is not solved: in every chain
\* that GET /chain returns, every block but the first satisfies valid_proof
C1_ReaderSeesSolvedBlocks ==
    \A t \in Threads :
        ret[t].kind = "chain" =>
            \A i \in 2 .. Len(ret[t].chain) : valid_proof(ret[t].chain[i])

\* C2: in every state, every block of the chain but the first carries in
\* previous_hash the hash of the block before it as that block is now
C2_Linkage ==
    \A i \in 2 .. Len(chain) : ChainVal[i].previous_hash = hash(ChainVal[i - 1])

\* C3: no step makes the chain shorter, and a resolve_conflict that replaces
\* the chain leaves it with more blocks than it had
C3_ChainNeverShrinks ==
    [][ /\ Len(chain') >= Len(chain)
        /\ \A t \in Threads :
             (pc[t] = "rc_for" /\ pc'[t] = "done" /\ ret'[t].replaced)
                 => Len(chain') > Len(chain) ]_vars

\* a peer's answer r that may replace a chain of n blocks
GoodPeer(r, n) == r.status_code = 200 /\ r.length > n /\ valid_chain(r.chain)

\* C4: when resolve_conflict returns, it returns True exactly if some scanned
\* peer answered 200 with a length above the local chain's and a chain that
\* passes valid_chain; the chain is then that of the peer with the greatest
\* such length, the first scanned among equals, and is otherwise left alone
C4_ResolveAdoptsLongestValid ==
    [][ \A t \in Threads :
          (pc[t] = "rc_for" /\ pc'[t] = "done") =>
              LET good == { i \in 1 .. Len(scanned[t]) :
                              GoodPeer(scanned[t][i], Len(chain)) }
              IN  /\ ret'[t].replaced <=> good # {}
                  /\ good = {} => chain' = chain
                  /\ good # {} =>
                       \E i \in good :
                           /\ \A j \in good :
                                /\ scanned[t][j].length <= scanned[t][i].length
                                /\ j < i => scanned[t][j].length < scanned[t][i].length
                           /\ ChainVal' = scanned[t][i].chain ]_vars

\* C4 witness: two peers answered with valid chains of the same reported
\* length, and the chain is now that of the one scanned first
C4_Witness ==
    \E t \in Threads :
        /\ pc[t] = "done" /\ ret[t].kind = "resolve" /\ ret[t].replaced
        /\ Len(scanned[t]) = 2
        /\ scanned[t][1].length = max_length[t]
        /\ scanned[t][2].length = max_length[t]
        /\ scanned[t][1].chain # scanned[t][2].chain
        /\ ChainVal = scanned[t][1].chain

\* C5: resolve_conflict never ends in the error of a fetch that failed: the
\* peer is skipped and the call returns its boolean
C5_UnreachablePeerSkipped ==
    \A t \in Threads : pc[t] = "raised" => ret[t].error # "ConnectionError"

\* C6: a resolve_conflict during which no peer had a chain longer than the
\* local one returns False, raises nothing and leaves the chain as it was
C6_NoLongerPeerNoReplacement ==
    [][ \A t \in Threads :
          (pc[t] = "rc_for" /\ pc'[t] \in {"done", "raised"} /\ ~ longer'[t]) =>
              /\ pc'[t] = "done"
              /\ ~ ret'[t].replaced
              /\ chain' = chain ]_vars

\* C7: the chain is never empty and its first block has index 1,
\* previous_hash '1' and proof 100
C7_GenesisBlock ==
    /\ Len(chain) >= 1
    /\ ChainVal[1].index = 1
    /\ ChainVal[1].previous_hash = << 1 >>
    /\ ChainVal[1].proof = GenesisProof

\* C8: the block at position i of the chain (counted from 1) has index i,
\* so that indices are consecutive and no two blocks share one
C8_ConsecutiveIndices ==
    \A i \in 1 .. Len(chain) :
        /\ ChainVal[i].index = i
        /\ i > 1 => ChainVal[i].index = ChainVal[i - 1].index + 1

\* C9: new_block builds its block from the pool as it is at the call, appends
\* it and leaves the pool empty; the transactions of a block never change
\* afterwards; and no step but new_block's reset takes anything out of the pool
C9_NewBlockTakesPool ==
    [][ /\ \A t \in Threads :
             /\ (pc[t] = "mine_new_block" /\ pc'[t] = "nb_reset")
                    => BlockVal(block[t])'.transactions = Pool
             /\ (pc[t] = "nb_append" /\ pc'[t] = "pow")
                    => chain' = Append(chain, block[t]) /\ Pool' = << >>
        /\ \A a \in 1 .. Len(blocks) :
             BlockVal(a)'.transactions = BlockVal(a).transactions
        /\ \/ \E t \in Threads : pc[t] = "nb_reset" /\ pc'[t] = "nb_append"
           \/ pending_transactions' = pending_transactions /\ IsPrefix(Pool, Pool') ]_vars

\* C9 witness: new_block has returned a block, now last in the chain, with a
\* posted transaction and the reward in the order they came, and the pool is empty
C9_Witness ==
    \E t \in Threads : \E tx \in UserTxs :
        /\ pc[t] = "pow"
        /\ chain[Len(chain)] = block[t]
        /\ BlockVal(block[t]).transactions = << tx, RewardTx >>
        /\ Pool = << >>

\* C10: every index new_transaction returned for a transaction is the index
\* of the block that new_block made of the list holding that transaction
C10_ReturnedIndexIsBlockIndex ==
    \A a \in 1 .. Len(blocks) :
        \A i \in index_for[blocks[a].transactions] : i = blocks[a].index

\* a step in which new_block appends its block to the chain
NewBlockAppends ==
    \E t \in Threads :
        pc[t] = "nb_append" /\ pc'[t] = "pow" /\ Len(chain') = Len(chain) + 1

\* a step in which resolve_conflict returns True
ResolveReplaces ==
    \E t \in Threads : pc[t] = "rc_for" /\ pc'[t] = "done" /\ ret'[t].replaced

\* C11 as stated: every step that changes the number of blocks of the chain
\* is new_block's append, which adds exactly one
C11_OnlyNewBlockChangesLength ==
    [][ Len(chain') # Len(chain) => NewBlockAppends ]_vars

\* C11 amended: every step that changes the number of blocks of the chain is
\* new_block's append, which adds exactly one, or the replacement of the chain
\* by a resolve_conflict that returns True; no other step changes it
C11_LengthChangedByNewBlockOrResolve ==
    [][ Len(chain') # Len(chain) => NewBlockAppends \/ ResolveReplaces ]_vars

\* C11 witness: resolve_conflict has replaced the one-block chain of a node
\* that never mined with a chain of two blocks
C11_Witness ==
    \E t \in Threads :
        /\ pc[t] = "done" /\ ret[t].kind = "resolve" /\ ret[t].replaced
        /\ Len(chain) = 2 /\ Len(blocks) = 3

\* C12: no step of resolve_conflict, from its first statement to its return
\* of True or False, changes the pool or the set of nodes
C12_ResolveKeepsPoolAndNodes ==
    [][ (\E t \in Threads : pc[t] = "rc_for" \/ pc'[t] = "rc_for") =>
            /\ pending_transactions' = pending_transactions
            /\ Pool' = Pool
            /\ nodes' = nodes ]_vars

\* C12 witness: resolve_conflict has returned True on a node with a
\* transaction in its pool and a registered peer
C12_Witness ==
    \E t \in Threads :
        /\ pc[t] = "done" /\ ret[t].kind = "resolve" /\ ret[t].replaced
        /\ Pool # << >> /\ nodes # {}

\* C13: a direct call of valid_chain on a chain of one block or more returns
\* True exactly if every block but the first carries the hash of the block
\* before it and satisfies valid_proof; nothing is asked of the first block,
\* and a chain of one block is accepted
C13_ValidChainIffLinkedAndSolved ==
    (call.fn = "valid_chain" /\ call.pc = "return") =>
        /\ call.ret <=>
             \A i \in 2 .. Len(call.chain) :
                 /\ call.chain[i].previous_hash = hash(call.chain[i - 1])
                 /\ valid_proof(call.chain[i])
        /\ Len(call.chain) = 1 => call.ret

\* C13 witness: valid_chain has returned True on a chain of several blocks
\* whose first block fails valid_proof
C13_Witness ==
    /\ call.fn = "valid_chain" /\ call.pc = "return" /\ call.ret
    /\ Len(call.chain) >= 2
    /\ ~ valid_proof(call.chain[1])

\* C14: a direct call of proof_of_work returns; while it runs the proof of
\* its block never decreases and no other field of the block changes; and
\* when it returns the block satisfies valid_proof with the smallest proof,
\* from the one it came with on, that does
C14_ProofOfWorkFindsSmallest ==
    /\ [][ (call.fn = "proof_of_work" /\ call'.fn = "proof_of_work") =>
             /\ call'.block.proof >= call.block.proof
             /\ [call'.block EXCEPT !.proof = 0] = [call.block EXCEPT !.proof = 0]
             /\ (call.pc = "while" /\ call'.pc = "return") =>
                  /\ valid_proof(call'.block)
                  /\ \A p \in call.start .. call'.block.proof - 1 :
                         ~ valid_proof([call'.block EXCEPT !.proof = p]) ]_vars
    /\ (call.fn = "proof_of_work") ~>
           (call.fn = "proof_of_work" /\ call.pc = "return")

\* C14 witness: proof_of_work has returned after a search that passed
\* several proofs
C14_Witness ==
    /\ call.fn = "proof_of_work" /\ call.pc = "return"
    /\ call.block.proof >= call.start + 2
    /\ valid_proof(call.block)

\* C15: when mine's proof search ends and mine reports its block, that block
\* is a block of the chain and satisfies valid_proof, whatever a concurrent
\* resolve_conflict did in the meantime
C15_MinedBlockIsInChain ==
    [][ \A t \in Threads :
          (pc[t] = "pow" /\ pc'[t] = "done") =>
              /\ \E i \in 1 .. Len(chain') : ChainVal'[i] = BlockVal(block[t])'
              /\ valid_proof(BlockVal(block[t])') ]_vars

\* the positions k (counted from 0) at which chain c is a chain accepted by
\* valid_chain with one transaction field of block k, not the last, changed
\* so that the block's hash changed, and nothing else
TamperedAt(c) ==
    { k \in 0 .. Len(c) - 2 :
        \E a \in { b \in BuiltChains : Len(b) = Len(c) /\ valid_chain(b) } :
            \E j \in 1 .. Len(a[k + 1].transactions), field \in TxFields :
                /\ c = Tamper(a, k, j, field)
                /\ hash(c[k + 1]) # hash(a[k + 1]) }

\* C16 as stated: valid_chain returns False on a tampered chain, and it stops
\* at the position of the block that was changed
C16_TamperFailsAtBlock ==
    (call.fn = "valid_chain" /\ call.pc = "return") =>
        \A k \in TamperedAt(call.chain) :
            ~ call.ret /\ call.current_index = k

\* C16 amended: valid_chain returns False on a tampered chain; it stops at
\* the position of the changed block if that block is not the first and no
\* longer satisfies valid_proof, and at the position after it otherwise
C16_TamperFailsAtBlockOrNext ==
    (call.fn = "valid_chain" /\ call.pc = "return") =>
        \A k \in TamperedAt(call.chain) :
            /\ ~ call.ret
            /\ call.current_index =
                 IF k >= 1 /\ ~ valid_proof(call.chain[k + 1]) THEN k ELSE k + 1

\* C16 witness: valid_chain has returned False on a chain whose second
\* block was tampered with, at that block
C16_Witness ==
    /\ call.fn = "valid_chain" /\ call.pc = "return" /\ ~ call.ret
    /\ 1 \in TamperedAt(call.chain)
    /\ call.current_index = 1

\* C17: an address without a network location is not registered: the set
\* of nodes never holds the empty string, and resolve_conflict never fails
\* on a URL without a host
C17_NoEmptyNetloc ==
    /\ "" \notin nodes
    /\ \A t \in Threads : pc[t] = "raised" => ret[t].error # "InvalidURL"

\* the positions of the chain whose block holds list l as its transactions
InChain(l) == { i \in 1 .. Len(chain) : blocks[chain[i]].transactions = l }

\* a new_block that has reset the pool is about to append a block holding l
InFlight(l) ==
    \E t \in Threads : pc[t] = "nb_append" /\ blocks[block[t]].transactions = l

\* C18: the transactions new_transaction accepted (each is in the one list
\* it was appended to) are in the pool and in no block of the chain, or in
\* exactly one block of the chain, or in the block a new_block is about to
\* append: none is lost and none is in two blocks
C18_EveryTransactionOnce ==
    \A l \in 1 .. Len(lists) :
        lists[l] # << >> =>
            \/ l = pending_transactions /\ InChain(l) = {}
            \/ l # pending_transactions /\ Cardinality(InChain(l)) = 1
            \/ l # pending_transactions /\ InChain(l) = {} /\ InFlight(l)

\* the number of reward transactions in the list of transactions txs
RECURSIVE Rewards(_)
Rewards(txs) ==
    IF txs = << >> THEN 0
    ELSE (IF Head(txs).sender = "0" /\ Head(txs).amount = 1 THEN 1 ELSE 0)
             + Rewards(Tail(txs))

\* C19: every block that mine has appended to the chain (every block but the
\* first, when nothing but mine makes blocks) holds exactly one reward
\* transaction
C19_OneRewardPerBlock ==
    \A i \in 2 .. Len(chain) : Rewards(ChainVal[i].transactions) = 1

====
